---- MODULE Spec2Model ----
(***************************************************************************)
(* A model of train.py: main() (command line overrides of the              *)
(* configuration), train() (the graph is wired stage by stage and the      *)
(* training loop is started), and the decision functions                   *)
(* _configure_learning_rate, _configure_optimizer,                         *)
(* get_trainable_variables and get_init_function.                          *)
(*                                                                         *)
(* Three specifications share the variables:                               *)
(*   SpecMain    main() from parse_args() to the call of train();          *)
(*   Spec        train() from its entry to the end of the training loop;   *)
(*   SpecScopes  get_trainable_variables and get_init_function called on   *)
(*               every scope list, variable collection and file system     *)
(*               within the bounds.                                        *)
(*                                                                         *)
(* Python values: None is the record [none |-> TRUE]; an optional number   *)
(* or list is None or Some(v). A str that is only compared (a decay type,  *)
(* an optimizer name) is a TLA+ string; a str that is stripped or tested   *)
(* for a prefix (a scope, a variable name) is a sequence of characters.    *)
(* A call returns Return(v) or raises Raise(e). fileCfg is a history        *)
(* variable: the configuration as it was read, kept to compare with.       *)
(***************************************************************************)
EXTENDS Integers, Sequences, FiniteSets, TLC

VARIABLES
    pc,             \* the position in main() / train() / the called function
    args,           \* the parsed command line (argparse namespace)
    fileCfg,        \* the configuration as parse_config_file returned it
    cfg,            \* the configuration object (mutated by main)
    lr,             \* train: the learning rate tensor, or None
    optimizer,      \* train: the optimizer, or None
    built,          \* train: the stages completed so far, in order
    graph,          \* the graph's variable collections (built by the network)
    fs,             \* the file system: what the checkpoint lookups find
    trainable_vars, \* result of get_trainable_variables, or None
    init_fn,        \* result of get_init_function, or None
    call,           \* the arguments of the call of train() / of the function
    error,          \* the exception that ended the program, or None
    global_step     \* the number of training steps that have run

vars == <<pc, args, fileCfg, cfg, lr, optimizer, built, graph, fs,
          trainable_vars, init_fn, call, error, global_step>>

----------------------------------------------------------------------------
(* Bounds *)

MaxBatch == 2

MaxExamples == 3

MaxSteps == 2

MaxLen == 2

MaxScopes == 2

----------------------------------------------------------------------------
(* Python values *)

None == [none |-> TRUE]

Some(v) == [none |-> FALSE, val |-> v]

Return(v) == [raised |-> FALSE, value |-> v]

Raise(e) == [raised |-> TRUE, error |-> e]

\* ValueError(msg, value): the arguments are kept as they were passed (the
\* message is not formatted with the value).
ValueError(msg, value) == [type |-> "ValueError", args |-> <<msg, value>>]

\* ValueError(msg % value): one formatted argument.
ValueErrorFormatted(msg) == [type |-> "ValueError", args |-> <<msg>>]

ZeroDivisionError == [type |-> "ZeroDivisionError", args |-> <<"division by zero">>]

GlobalStepTensor == "global_step"

----------------------------------------------------------------------------
(* _configure_learning_rate *)

\* int(cfg.NUM_TRAIN_EXAMPLES / cfg.BATCH_SIZE * cfg.NUM_EPOCHS_PER_DELAY):
\* true division, then the product, truncated. On the non-negative integers of
\* the bounds the float result is the exact quotient truncated.
DecaySteps(c) ==
    (c.NUM_TRAIN_EXAMPLES * c.NUM_EPOCHS_PER_DELAY) \div c.BATCH_SIZE

ExponentialDecay(c) ==
    [op |-> "exponential_decay",
     learning_rate |-> c.INITIAL_LEARNING_RATE,
     global_step |-> GlobalStepTensor,
     decay_steps |-> DecaySteps(c),
     decay_rate |-> c.LEARNING_RATE_DECAY_FACTOR,
     staircase |-> c.LEARNING_RATE_STAIRCASE,
     name |-> "exponential_decay_learning_rate"]

FixedRate(c) ==
    [op |-> "constant",
     value |-> c.INITIAL_LEARNING_RATE,
     name |-> "fixed_learning_rate"]

PolynomialDecay(c) ==
    [op |-> "polynomial_decay",
     learning_rate |-> c.INITIAL_LEARNING_RATE,
     global_step |-> GlobalStepTensor,
     decay_steps |-> DecaySteps(c),
     end_learning_rate |-> c.END_LEARNING_RATE,
     power |-> 1,
     cycle |-> FALSE,
     name |-> "polynomial_decay_learning_rate"]

\* A slip in the other direction: decay_steps is computed only in the branches
\* that use it, so a zero batch size goes unnoticed by the other branches.
MutDecayStepsLazy(c) ==
    IF c.LEARNING_RATE_DECAY_TYPE = "exponential"
    THEN IF c.BATCH_SIZE = 0 THEN Raise(ZeroDivisionError)
         ELSE Return(ExponentialDecay(c))
    ELSE IF c.LEARNING_RATE_DECAY_TYPE = "fixed"
    THEN Return(FixedRate(c))
    ELSE IF c.LEARNING_RATE_DECAY_TYPE = "polynomial"
    THEN IF c.BATCH_SIZE = 0 THEN Raise(ZeroDivisionError)
         ELSE Return(PolynomialDecay(c))
    ELSE Raise(ValueError("learning_rate_decay_type [%s] was not recognized",
                          c.LEARNING_RATE_DECAY_TYPE))

\* decay_steps is computed first: the division raises ZeroDivisionError when
\* cfg.BATCH_SIZE is 0, before the decay type is looked at.
ConfigureLearningRate(c) ==
    IF c.BATCH_SIZE = 0
    THEN Raise(ZeroDivisionError)
    ELSE IF c.LEARNING_RATE_DECAY_TYPE = "exponential"
         THEN Return(ExponentialDecay(c))
    ELSE IF c.LEARNING_RATE_DECAY_TYPE = "fixed"
         THEN Return(FixedRate(c))
    ELSE IF c.LEARNING_RATE_DECAY_TYPE = "polynomial"
         THEN Return(PolynomialDecay(c))
    ELSE Raise(ValueError("learning_rate_decay_type [%s] was not recognized",
                          c.LEARNING_RATE_DECAY_TYPE))

----------------------------------------------------------------------------
(* _configure_optimizer *)

\* The value of a hyperparameter field of the configuration, which no
\* operation of the program changes: it is named, not enumerated.
Hyper(field) == [cfg_field |-> field]

Adadelta(learning_rate) ==
    [ctor |-> "AdadeltaOptimizer", learning_rate |-> learning_rate,
     kwargs |-> [rho |-> Hyper("ADADELTA_RHO"),
                 epsilon |-> Hyper("OPTIMIZER_EPSILON")]]

Adagrad(learning_rate) ==
    [ctor |-> "AdagradOptimizer", learning_rate |-> learning_rate,
     kwargs |-> [initial_accumulator_value |->
                     Hyper("ADAGRAD_INITIAL_ACCUMULATOR_VALUE")]]

Adam(learning_rate) ==
    [ctor |-> "AdamOptimizer", learning_rate |-> learning_rate,
     kwargs |-> [beta1 |-> Hyper("ADAM_BETA1"),
                 beta2 |-> Hyper("ADAM_BETA2"),
                 epsilon |-> Hyper("OPTIMIZER_EPSILON")]]

Ftrl(learning_rate) ==
    [ctor |-> "FtrlOptimizer", learning_rate |-> learning_rate,
     kwargs |-> [learning_rate_power |-> Hyper("FTRL_LEARNING_RATE_POWER"),
                 initial_accumulator_value |-> Hyper("FTRL_INITIAL_ACCUMULATOR_VALUE"),
                 l1_regularization_strength |-> Hyper("FTRL_L1"),
                 l2_regularization_strength |-> Hyper("FTRL_L2")]]

Momentum(learning_rate) ==
    [ctor |-> "MomentumOptimizer", learning_rate |-> learning_rate,
     kwargs |-> [momentum |-> Hyper("MOMENTUM"), name |-> "Momentum"]]

\* A copy-and-paste slip: the rmsprop branch builds the momentum optimizer.
MutRMSPropIsMomentum(learning_rate) ==
    [ctor |-> "MomentumOptimizer", learning_rate |-> learning_rate,
     kwargs |-> [momentum |-> Hyper("MOMENTUM"), name |-> "Momentum"]]

RMSProp(learning_rate) ==
    [ctor |-> "RMSPropOptimizer", learning_rate |-> learning_rate,
     kwargs |-> [decay |-> Hyper("RMSPROP_DECAY"),
                 momentum |-> Hyper("MOMENTUM"),
                 epsilon |-> Hyper("OPTIMIZER_EPSILON")]]

GradientDescent(learning_rate) ==
    [ctor |-> "GradientDescentOptimizer", learning_rate |-> learning_rate,
     kwargs |-> [none |-> TRUE]]

ConfigureOptimizer(learning_rate, c) ==
    IF c.OPTIMIZER = "adadelta" THEN Return(Adadelta(learning_rate))
    ELSE IF c.OPTIMIZER = "adagrad" THEN Return(Adagrad(learning_rate))
    ELSE IF c.OPTIMIZER = "adam" THEN Return(Adam(learning_rate))
    ELSE IF c.OPTIMIZER = "ftrl" THEN Return(Ftrl(learning_rate))
    ELSE IF c.OPTIMIZER = "momentum" THEN Return(Momentum(learning_rate))
    ELSE IF c.OPTIMIZER = "rmsprop" THEN Return(RMSProp(learning_rate))
    ELSE IF c.OPTIMIZER = "sgd" THEN Return(GradientDescent(learning_rate))
    ELSE Raise(ValueError("Optimizer [%s] was not recognized", c.OPTIMIZER))

----------------------------------------------------------------------------
(* str.strip and str.startswith, on sequences of characters *)

IsSpace(ch) == ch = " "

RECURSIVE LStrip(_)
LStrip(s) ==
    IF s # <<>> /\ IsSpace(Head(s)) THEN LStrip(Tail(s)) ELSE s

RECURSIVE RStrip(_)
RStrip(s) ==
    IF s # <<>> /\ IsSpace(s[Len(s)]) THEN RStrip(SubSeq(s, 1, Len(s) - 1)) ELSE s

\* A slip: only the leading whitespace is removed (lstrip for strip).
MutStripLeadingOnly(s) == LStrip(s)

Strip(s) == RStrip(LStrip(s))

StartsWith(s, prefix) ==
    Len(prefix) <= Len(s) /\ SubSeq(s, 1, Len(prefix)) = prefix

\* [scope.strip() for scope in scopes]
StripAll(scopes) == [i \in 1..Len(scopes) |-> Strip(scopes[i])]

----------------------------------------------------------------------------
(* get_trainable_variables *)

\* tf.get_collection(tf.GraphKeys.TRAINABLE_VARIABLES, scope): the items of the
\* collection, in the collection's order, whose name the scope matches at its
\* start (re.match; on names and scopes without regular-expression
\* metacharacters, as here, that is name.startswith(scope)).
GetCollection(collection, scope) ==
    SelectSeq(collection, LAMBDA v : StartsWith(v, scope))

\* for scope in trainable_scopes: variables_to_train.extend(get_collection(scope))
RECURSIVE ExtendAll(_, _, _)
ExtendAll(variables_to_train, scopes, collection) ==
    IF scopes = <<>>
    THEN variables_to_train
    ELSE ExtendAll(variables_to_train \o GetCollection(collection, Head(scopes)),
                   Tail(scopes), collection)

GetTrainableVariables(trainable_scopes, g) ==
    IF trainable_scopes = None
    THEN g.trainable_variables
    ELSE ExtendAll(<<>>, StripAll(trainable_scopes.val), g.trainable_variables)

----------------------------------------------------------------------------
(* get_init_function *)

\* tf.train.latest_checkpoint(dir): the path of the latest checkpoint the
\* directory holds, or None.
LatestCheckpoint(f, dir) ==
    IF dir \in f.ckpt_dirs THEN Some(dir \o "/model.ckpt") ELSE None

\* A slip: os.path.isfile for os.path.isdir.
MutIsFile(f, path) == path \notin f.dirs

\* os.path.isdir(path)
IsDir(f, path) == path \in f.dirs

\* var is kept: no exclusion is a prefix of var.op.name
NotExcluded(name, exclusions) ==
    ~ \E i \in 1..Len(exclusions) : StartsWith(name, exclusions[i])

VariablesToRestore(checkpoint_exclude_scopes, g) ==
    LET exclusions ==
            IF checkpoint_exclude_scopes # None /\ checkpoint_exclude_scopes.val # <<>>
            THEN StripAll(checkpoint_exclude_scopes.val)
            ELSE <<>>
    IN  SelectSeq(g.model_variables, LAMBDA v : NotExcluded(v, exclusions))

\* slim.assign_from_checkpoint_fn(checkpoint_path, variables_to_restore,
\*                                ignore_missing_vars=False)
AssignFromCheckpointFn(checkpoint_path, variables_to_restore) ==
    [fn |-> "assign_from_checkpoint_fn",
     checkpoint_path |-> checkpoint_path,
     var_list |-> variables_to_restore,
     ignore_missing_vars |-> FALSE]

\* A slip: the check of the logdir is dropped (the pretrained model is restored
\* over a run that is being resumed).
MutLogdirNotChecked(f, logdir) == FALSE

\* if tf.train.latest_checkpoint(logdir):
LogdirHasCheckpoint(f, logdir) == LatestCheckpoint(f, logdir) # None

GetInitFunction(logdir, pretrained_model_path, checkpoint_exclude_scopes, g, f) ==
    IF pretrained_model_path = None
    THEN Return(None)
    ELSE IF LogdirHasCheckpoint(f, logdir)
    THEN Return(None)
    ELSE LET variables_to_restore ==
                 VariablesToRestore(checkpoint_exclude_scopes, g)
             path == pretrained_model_path.val
         IN  IF IsDir(f, path)
             THEN IF LatestCheckpoint(f, path) = None
                  THEN Raise(ValueErrorFormatted(
                           "No model checkpoint file found in directory " \o path))
                  ELSE Return(AssignFromCheckpointFn(LatestCheckpoint(f, path).val,
                                                     variables_to_restore))
             ELSE Return(AssignFromCheckpointFn(path, variables_to_restore))

----------------------------------------------------------------------------
(* The inputs: configurations, variable collections, file systems *)

RecognizedDecayTypes == {"exponential", "fixed", "polynomial"}

DecayTypeStrings == RecognizedDecayTypes \cup {"bogus"}

RecognizedOptimizers ==
    {"adadelta", "adagrad", "adam", "ftrl", "momentum", "rmsprop", "sgd"}

OptimizerStrings == RecognizedOptimizers \cup {"bogus"}

\* The configuration record: the fields that decide a branch or are overridden
\* are enumerated; a field that is only passed on is named (Hyper).
Cfgs(examples, batches, decays, rates, optimizers, iterations, models) ==
    [NUM_TRAIN_EXAMPLES : examples,
     BATCH_SIZE : batches,
     NUM_EPOCHS_PER_DELAY : {2},
     LEARNING_RATE_DECAY_TYPE : decays,
     INITIAL_LEARNING_RATE : rates,
     LEARNING_RATE_DECAY_FACTOR : {Hyper("LEARNING_RATE_DECAY_FACTOR")},
     LEARNING_RATE_STAIRCASE : {Hyper("LEARNING_RATE_STAIRCASE")},
     END_LEARNING_RATE : {Hyper("END_LEARNING_RATE")},
     OPTIMIZER : optimizers,
     NUM_TRAIN_ITERATIONS : iterations,
     MODEL_NAME : models,
     NUM_CLASSES : {Hyper("NUM_CLASSES")}]

\* The configurations train() is entered with.
TrainCfgs ==
    Cfgs({MaxExamples}, 0..MaxBatch, DecayTypeStrings, {1}, OptimizerStrings,
         0..MaxSteps, {"inception_v3"})

LogDir == "logdir"

PretrainedPath == "pretrained"

\* Each path is a directory or not, and a directory holds a checkpoint or
\* not; the logdir is a directory.
FileSystems ==
    UNION {{[dirs |-> d, ckpt_dirs |-> k] : k \in SUBSET d} :
           d \in {{LogDir}, {LogDir, PretrainedPath}}}

A == <<"a">>

B == <<"b">>

AB == <<"a", "b">>

BA == <<"b", "a">>

BB == <<"b", "b">>

EmptyGraph ==
    [model_variables |-> <<>>, trainable_variables |-> <<>>,
     aux_logits |-> FALSE, losses |-> <<>>]

\* The variables a network creates: the model variables in creation order, the
\* trainable ones among them, and whether the network has an auxiliary head.
Graphs ==
    {[model_variables |-> <<A, AB, B>>, trainable_variables |-> <<A, AB, B>>,
      aux_logits |-> FALSE, losses |-> <<>>],
     [model_variables |-> <<BA, A, AB, BB>>, trainable_variables |-> <<BA, AB>>,
      aux_logits |-> TRUE, losses |-> <<>>],
     [model_variables |-> <<B>>, trainable_variables |-> <<>>,
      aux_logits |-> FALSE, losses |-> <<>>]}

\* The arguments main() passes to train().
TrainCalls ==
    [tfrecords : {<<"train.tfrecords">>},
     logdir : {LogDir},
     pretrained_model_path : {None, Some(PretrainedPath)},
     trainable_scopes : {None, Some(<<A>>)},
     checkpoint_exclude_scopes : {None, Some(<<B>>)}]

----------------------------------------------------------------------------
(* train() *)

InitTrain ==
    /\ pc = "train"
    /\ cfg \in TrainCfgs
    /\ call \in TrainCalls
    /\ args = None
    /\ fileCfg = None
    /\ lr = None
    /\ optimizer = None
    /\ built = <<>>
    /\ graph = EmptyGraph
    /\ fs = None
    /\ trainable_vars = None
    /\ init_fn = None
    /\ error = None
    /\ global_step = 0

\* A stage of train() that builds framework objects and decides nothing.
Stage(at, name, next) ==
    /\ pc = at
    /\ pc' = next
    /\ built' = Append(built, name)

\* slim.get_or_create_global_step()
CreateGlobalStep ==
    /\ Stage("train", "global_step", "configure_learning_rate")
    /\ UNCHANGED <<args, fileCfg, cfg, lr, optimizer, graph, fs, trainable_vars,
                   init_fn, call, error, global_step>>

\* lr = _configure_learning_rate(global_step, cfg)
TrainLearningRate ==
    /\ pc = "configure_learning_rate"
    /\ LET r == ConfigureLearningRate(cfg) IN
         IF r.raised
         THEN /\ pc' = "raised"
              /\ error' = r.error
              /\ UNCHANGED <<lr, built>>
         ELSE /\ pc' = "configure_optimizer"
              /\ lr' = r.value
              /\ built' = Append(built, "learning_rate")
              /\ UNCHANGED error
    /\ UNCHANGED <<args, fileCfg, cfg, optimizer, graph, fs, trainable_vars,
                   init_fn, call, global_step>>

\* optimizer = _configure_optimizer(lr, cfg)
TrainOptimizer ==
    /\ pc = "configure_optimizer"
    /\ LET r == ConfigureOptimizer(lr, cfg) IN
         IF r.raised
         THEN /\ pc' = "raised"
              /\ error' = r.error
              /\ UNCHANGED <<optimizer, built>>
         ELSE /\ pc' = "input_nodes"
              /\ optimizer' = r.value
              /\ built' = Append(built, "optimizer")
              /\ UNCHANGED error
    /\ UNCHANGED <<args, fileCfg, cfg, lr, graph, fs, trainable_vars,
                   init_fn, call, global_step>>

\* batch_dict = inputs.input_nodes(...); the one-hot labels; the input summaries
InputNodes ==
    /\ Stage("input_nodes", "input_pipeline", "network")
    /\ UNCHANGED <<args, fileCfg, cfg, lr, optimizer, graph, fs, trainable_vars,
                   init_fn, call, error, global_step>>

\* logits, end_points = nets_factory.networks_map[cfg.MODEL_NAME](...): the
\* network creates the graph's variables.
Network ==
    /\ Stage("network", "network", "losses")
    /\ graph' \in Graphs
    /\ UNCHANGED <<args, fileCfg, cfg, lr, optimizer, fs, trainable_vars,
                   init_fn, call, error, global_step>>

\* the auxiliary loss when the network has 'AuxLogits', the loss, the total loss
Losses ==
    /\ Stage("losses", "loss", "moving_average")
    /\ graph' = [graph EXCEPT !.losses =
                    IF graph.aux_logits
                    THEN <<"aux_loss", "softmax_cross_entropy_loss">>
                    ELSE <<"softmax_cross_entropy_loss">>]
    /\ UNCHANGED <<args, fileCfg, cfg, lr, optimizer, fs, trainable_vars,
                   init_fn, call, error, global_step>>

\* ema = tf.train.ExponentialMovingAverage(...); ema.apply(model variables)
MovingAverage ==
    /\ Stage("moving_average", "moving_average", "get_trainable_variables")
    /\ UNCHANGED <<args, fileCfg, cfg, lr, optimizer, graph, fs, trainable_vars,
                   init_fn, call, error, global_step>>

\* trainable_vars = get_trainable_variables(trainable_scopes)
TrainableVars ==
    /\ Stage("get_trainable_variables", "trainable_variables", "create_train_op")
    /\ trainable_vars' = Some(GetTrainableVariables(call.trainable_scopes, graph))
    /\ UNCHANGED <<args, fileCfg, cfg, lr, optimizer, graph, fs,
                   init_fn, call, error, global_step>>

\* train_op = slim.learning.create_train_op(total_loss, optimizer, ...)
CreateTrainOp ==
    /\ Stage("create_train_op", "train_op", "summary")
    /\ UNCHANGED <<args, fileCfg, cfg, lr, optimizer, graph, fs, trainable_vars,
                   init_fn, call, error, global_step>>

\* summary_op = tf.summary.merge(...); sess_config = tf.ConfigProto(...)
Summaries ==
    /\ Stage("summary", "summary", "saver")
    /\ UNCHANGED <<args, fileCfg, cfg, lr, optimizer, graph, fs, trainable_vars,
                   init_fn, call, error, global_step>>

\* saver = tf.train.Saver(...)
Saver ==
    /\ Stage("saver", "saver", "get_init_function")
    /\ UNCHANGED <<args, fileCfg, cfg, lr, optimizer, graph, fs, trainable_vars,
                   init_fn, call, error, global_step>>

\* init_fn=get_init_function(logdir, pretrained_model_path,
\* checkpoint_exclude_scopes): the argument is evaluated before
\* slim.learning.train is entered; it reads the file system as it is then.
TrainInitFn ==
    /\ pc = "get_init_function"
    /\ fs' \in FileSystems
    /\ LET r == GetInitFunction(call.logdir, call.pretrained_model_path,
                                call.checkpoint_exclude_scopes, graph, fs') IN
         IF r.raised
         THEN /\ pc' = "raised"
              /\ error' = r.error
              /\ UNCHANGED <<init_fn, built>>
         ELSE /\ pc' = "slim_train"
              /\ init_fn' = r.value
              /\ built' = Append(built, "init_fn")
              /\ UNCHANGED error
    /\ UNCHANGED <<args, fileCfg, cfg, lr, optimizer, graph, trainable_vars,
                   call, global_step>>

\* A slip: the training loop is entered where the saver is still to be built.
MutStartTrainingEarly ==
    /\ Stage("saver", "training_loop", "training")
    /\ UNCHANGED <<args, fileCfg, cfg, lr, optimizer, graph, fs, trainable_vars,
                   init_fn, call, error, global_step>>

\* slim.learning.train(train_op, logdir, ...) is entered
StartTraining ==
    /\ Stage("slim_train", "training_loop", "training")
    /\ UNCHANGED <<args, fileCfg, cfg, lr, optimizer, graph, fs, trainable_vars,
                   init_fn, call, error, global_step>>

\* slim.learning.train's loop: a step runs, and the loop ends after it when
\* number_of_steps is set (not zero) and the global step has reached it. The
\* count of steps the model follows is capped at MaxSteps.
TrainStep ==
    /\ pc = "training"
    /\ global_step < MaxSteps
    /\ global_step' = global_step + 1
    /\ pc' = IF cfg.NUM_TRAIN_ITERATIONS # 0
                /\ global_step' >= cfg.NUM_TRAIN_ITERATIONS
             THEN "done"
             ELSE "training"
    /\ UNCHANGED <<args, fileCfg, cfg, lr, optimizer, built, graph, fs,
                   trainable_vars, init_fn, call, error>>

NextTrain ==
    \/ CreateGlobalStep
    \/ TrainLearningRate
    \/ TrainOptimizer
    \/ InputNodes
    \/ Network
    \/ Losses
    \/ MovingAverage
    \/ TrainableVars
    \/ CreateTrainOp
    \/ Summaries
    \/ Saver
    \/ TrainInitFn
    \/ StartTraining
    \/ TrainStep

Spec == InitTrain /\ [][NextTrain]_vars

----------------------------------------------------------------------------
(* Claims about train(), checked under Spec *)

Range(seq) == {seq[i] : i \in 1..Len(seq)}

\* _configure_learning_rate has returned or raised
LearningRateDecided == pc \notin {"train", "configure_learning_rate"}

\* _configure_optimizer has been called and has returned or raised
OptimizerDecided == lr # None /\ pc # "configure_optimizer"

\* C1: _configure_learning_rate is a total function of the decay type string:
\* 'exponential' gives the exponential-decay schedule, 'fixed' the constant
\* INITIAL_LEARNING_RATE (no global step in it), 'polynomial' the polynomial
\* decay (to END_LEARNING_RATE, power 1, no cycling), and every other string
\* raises ValueError and returns no schedule. (The code raises
\* ZeroDivisionError for every string when BATCH_SIZE is 0.)
C1_DecayTypeDecidesSchedule ==
    LearningRateDecided =>
        IF cfg.LEARNING_RATE_DECAY_TYPE = "exponential"
        THEN /\ lr # None
             /\ lr.op = "exponential_decay"
             /\ lr.learning_rate = cfg.INITIAL_LEARNING_RATE
             /\ lr.global_step = GlobalStepTensor
             /\ lr.decay_rate = cfg.LEARNING_RATE_DECAY_FACTOR
             /\ lr.staircase = cfg.LEARNING_RATE_STAIRCASE
        ELSE IF cfg.LEARNING_RATE_DECAY_TYPE = "fixed"
        THEN /\ lr # None
             /\ lr.op = "constant"
             /\ lr.value = cfg.INITIAL_LEARNING_RATE
             /\ "global_step" \notin DOMAIN lr
        ELSE IF cfg.LEARNING_RATE_DECAY_TYPE = "polynomial"
        THEN /\ lr # None
             /\ lr.op = "polynomial_decay"
             /\ lr.learning_rate = cfg.INITIAL_LEARNING_RATE
             /\ lr.global_step = GlobalStepTensor
             /\ lr.end_learning_rate = cfg.END_LEARNING_RATE
             /\ lr.power = 1
             /\ lr.cycle = FALSE
        ELSE /\ lr = None
             /\ pc = "raised"
             /\ error # None
             /\ error.type = "ValueError"

\* The same statement for the configurations whose BATCH_SIZE is not 0: it
\* holds, so C1 fails by the division alone.
C1_HoldsForNonZeroBatch ==
    cfg.BATCH_SIZE # 0 => C1_DecayTypeDecidesSchedule

\* The optimizer class each recognized name stands for.
ExpectedOptimizer(name) ==
    CASE name = "adadelta" -> "AdadeltaOptimizer"
      [] name = "adagrad" -> "AdagradOptimizer"
      [] name = "adam" -> "AdamOptimizer"
      [] name = "ftrl" -> "FtrlOptimizer"
      [] name = "momentum" -> "MomentumOptimizer"
      [] name = "rmsprop" -> "RMSPropOptimizer"
      [] name = "sgd" -> "GradientDescentOptimizer"

\* C2: once _configure_optimizer has been called, a recognized name has given
\* the optimizer of its own class, built with the learning rate, and has not
\* raised; any other name has raised ValueError naming it and given no
\* optimizer; and two different recognized names never give the same class.
C2_OptimizerNameDecidesConstructor ==
    OptimizerDecided =>
        /\ cfg.OPTIMIZER \in RecognizedOptimizers =>
              /\ optimizer # None
              /\ optimizer.ctor = ExpectedOptimizer(cfg.OPTIMIZER)
              /\ optimizer.learning_rate = lr
              /\ "optimizer" \in Range(built)
        /\ cfg.OPTIMIZER \notin RecognizedOptimizers =>
              /\ optimizer = None
              /\ pc = "raised"
              /\ error = ValueError("Optimizer [%s] was not recognized", cfg.OPTIMIZER)
        /\ \A n1, n2 \in RecognizedOptimizers :
              n1 # n2 =>
                  LET r1 == ConfigureOptimizer(lr, [cfg EXCEPT !.OPTIMIZER = n1])
                      r2 == ConfigureOptimizer(lr, [cfg EXCEPT !.OPTIMIZER = n2])
                  IN  ~r1.raised /\ ~r2.raised /\ r1.value.ctor # r2.value.ctor

\* C2's case: training has ended with the optimizer 'rmsprop' selected.
C2_Witness ==
    /\ pc = "done"
    /\ cfg.OPTIMIZER = "rmsprop"
    /\ optimizer # None
    /\ optimizer.ctor = "RMSPropOptimizer"

\* The stages of train() that an unrecognized decay type or optimizer must
\* come before.
LaterStages ==
    {"input_pipeline", "network", "loss", "saver", "init_fn", "training_loop"}

RaisedBeforeWiring(value) ==
    /\ pc = "raised"
    /\ error # None
    /\ value \in Range(error.args)
    /\ Range(built) \cap LaterStages = {}
    /\ global_step = 0

\* C3: an unrecognized decay type or optimizer name raises before the input
\* pipeline, the network, the loss, the saver, the init function and the
\* training loop, no training step runs, and the error carries the offending
\* string. (With BATCH_SIZE = 0 the error raised is the division error of C1,
\* which carries no string.)
C3_UnrecognizedRaisesNamingValue ==
    /\ (cfg.LEARNING_RATE_DECAY_TYPE \notin RecognizedDecayTypes
        /\ LearningRateDecided)
           => RaisedBeforeWiring(cfg.LEARNING_RATE_DECAY_TYPE)
    /\ (cfg.LEARNING_RATE_DECAY_TYPE \in RecognizedDecayTypes
        /\ cfg.OPTIMIZER \notin RecognizedOptimizers
        /\ LearningRateDecided /\ pc # "configure_optimizer")
           => RaisedBeforeWiring(cfg.OPTIMIZER)

\* The same statement for the configurations whose BATCH_SIZE is not 0: it
\* holds, so C3 fails by the division error of C1 alone.
C3_HoldsForNonZeroBatch ==
    cfg.BATCH_SIZE # 0 => C3_UnrecognizedRaisesNamingValue

\* The order the claim gives.
ClaimedSequence ==
    <<"input_pipeline", "network", "loss", "optimizer", "moving_average",
      "saver", "init_fn">>

\* C9 as stated: input pipeline, then network, then loss, then optimizer, then
\* moving averages, then checkpointing: no stage is built before the stages
\* the claim puts ahead of it, and the loop starts after all of them.
C9_ClaimedOrder ==
    /\ \A i, j \in 1..Len(ClaimedSequence) :
          (i < j /\ ClaimedSequence[j] \in Range(built))
              => ClaimedSequence[i] \in Range(built)
    /\ "training_loop" \in Range(built)
          => Range(ClaimedSequence) \subseteq Range(built)

\* The order of the code.
WiringSequence ==
    <<"global_step", "learning_rate", "optimizer", "input_pipeline", "network",
      "loss", "moving_average", "trainable_variables", "train_op", "summary",
      "saver", "init_fn", "training_loop">>

\* C9 (amended): the stages are always built in the one sequence learning
\* rate, optimizer, input pipeline, network, loss, moving averages, train op,
\* saver, init function, whatever the configuration; the training loop is
\* entered, and a step runs, only after all of them.
C9_FixedOrder ==
    /\ Len(built) <= Len(WiringSequence)
    /\ built = SubSeq(WiringSequence, 1, Len(built))
    /\ (pc \in {"training", "done"} \/ global_step > 0
        \/ "training_loop" \in Range(built))
           => built = WiringSequence

\* C9's case: every stage is built and a training step has run.
C9_Witness ==
    /\ pc = "training"
    /\ global_step = 1
    /\ built = WiringSequence

----------------------------------------------------------------------------
(* get_trainable_variables and get_init_function on every input *)

\* The characters of a scope given on the command line.
ScopeChars == {"a", "b", " "}

\* Sequences over S of length at most n
SeqsUpTo(S, n) == UNION {[1..k -> S] : k \in 0..n}

RawScopes == SeqsUpTo(ScopeChars, MaxLen)

\* None (the option was not given) or a list of scopes
OptScopeLists == {None} \cup {Some(l) : l \in SeqsUpTo(RawScopes, MaxScopes)}

InitScopes ==
    /\ graph \in Graphs
    /\ \/ /\ pc = "get_trainable_variables"
          /\ call \in [trainable_scopes : OptScopeLists]
          /\ fs = None
       \/ /\ pc = "get_init_function"
          /\ call \in [logdir : {LogDir},
                       pretrained_model_path : {None, Some(PretrainedPath)},
                       checkpoint_exclude_scopes : OptScopeLists]
          /\ fs \in FileSystems
    /\ args = None
    /\ fileCfg = None
    /\ cfg = None
    /\ lr = None
    /\ optimizer = None
    /\ built = <<>>
    /\ trainable_vars = None
    /\ init_fn = None
    /\ error = None
    /\ global_step = 0

\* get_trainable_variables(trainable_scopes) is called and returns
CallGetTrainableVariables ==
    /\ pc = "get_trainable_variables"
    /\ trainable_vars' = Some(GetTrainableVariables(call.trainable_scopes, graph))
    /\ pc' = "get_trainable_variables_returned"
    /\ UNCHANGED <<args, fileCfg, cfg, lr, optimizer, built, graph, fs,
                   init_fn, call, error, global_step>>

\* get_init_function(logdir, pretrained_model_path, checkpoint_exclude_scopes)
\* is called and returns or raises
CallGetInitFunction ==
    /\ pc = "get_init_function"
    /\ LET r == GetInitFunction(call.logdir, call.pretrained_model_path,
                                call.checkpoint_exclude_scopes, graph, fs) IN
         IF r.raised
         THEN /\ pc' = "get_init_function_raised"
              /\ error' = r.error
              /\ UNCHANGED init_fn
         ELSE /\ pc' = "get_init_function_returned"
              /\ init_fn' = r.value
              /\ UNCHANGED error
    /\ UNCHANGED <<args, fileCfg, cfg, lr, optimizer, built, graph, fs,
                   trainable_vars, call, global_step>>

NextScopes ==
    \/ CallGetTrainableVariables
    \/ CallGetInitFunction

SpecScopes == InitScopes /\ [][NextScopes]_vars

----------------------------------------------------------------------------
(* Claims about the two functions, checked under SpecScopes *)

\* p is a prefix of s
IsPrefix(p, s) == \E k \in 0..Len(s) : SubSeq(s, 1, k) = p

\* s without its surrounding whitespace: what lies between the first and the
\* last character that is not a space
Trimmed(s) ==
    LET solid == {i \in 1..Len(s) : s[i] # " "} IN
    IF solid = {}
    THEN <<>>
    ELSE SubSeq(s, CHOOSE i \in solid : \A j \in solid : i <= j,
                   CHOOSE i \in solid : \A j \in solid : j <= i)

\* name lies within one of the scopes of the list
InSomeScope(name, scopes) ==
    \E i \in 1..Len(scopes) : IsPrefix(Trimmed(scopes[i]), name)

NoRepeats(seq) == \A i, j \in 1..Len(seq) : i # j => seq[i] # seq[j]

\* seq lists elements of base in the order base has them (base has no repeats)
InOrderOf(seq, base) ==
    \A i, j \in 1..Len(seq) :
        i < j => \E m, n \in 1..Len(base) :
                    m < n /\ base[m] = seq[i] /\ base[n] = seq[j]

TrainableReturned ==
    pc = "get_trainable_variables_returned" /\ call.trainable_scopes # None

\* C5: with a list of scopes, get_trainable_variables returns exactly the
\* trainable variables within at least one (stripped) scope: every such
\* variable, each listed once, and no other, also when scopes repeat or nest.
\* (The code lists a variable once per scope that matches it.)
C5_ExactlyTheScopedVariablesOnce ==
    TrainableReturned =>
        LET result == trainable_vars.val IN
        /\ Range(result) =
              {v \in Range(graph.trainable_variables) :
                  InSomeScope(v, call.trainable_scopes.val)}
        /\ NoRepeats(result)

\* C5 without 'each listed once': the variables returned are, as a set, the
\* trainable variables within at least one scope. It holds, so C5 fails by the
\* repeats alone.
C5_HoldsAsSet ==
    TrainableReturned =>
        Range(trainable_vars.val) =
            {v \in Range(graph.trainable_variables) :
                InSomeScope(v, call.trainable_scopes.val)}

InitFnCalled ==
    pc \in {"get_init_function_returned", "get_init_function_raised"}

PretrainedIsEmptyDir ==
    /\ call.pretrained_model_path # None
    /\ call.pretrained_model_path.val \in fs.dirs
    /\ call.pretrained_model_path.val \notin fs.ckpt_dirs

\* C4 as stated: a pretrained path that is a directory without a checkpoint
\* makes get_init_function raise, for every logdir and exclusion list.
C4_EmptyPretrainedDirRaises ==
    (InitFnCalled /\ PretrainedIsEmptyDir) =>
        /\ pc = "get_init_function_raised"
        /\ error # None

\* C4 (amended): a pretrained path that is a directory without a checkpoint
\* makes get_init_function raise ValueError naming the directory, for every
\* exclusion list, when the logdir holds no checkpoint; when the logdir holds
\* one, the call returns None and does not raise.
C4_EmptyPretrainedDirRaisesUnlessResuming ==
    (InitFnCalled /\ PretrainedIsEmptyDir) =>
        IF call.logdir \in fs.ckpt_dirs
        THEN /\ pc = "get_init_function_returned"
             /\ init_fn = None
             /\ error = None
        ELSE /\ pc = "get_init_function_raised"
             /\ init_fn = None
             /\ error = ValueErrorFormatted(
                    "No model checkpoint file found in directory "
                        \o call.pretrained_model_path.val)

\* C4's case: the pretrained directory holds no checkpoint, neither does the
\* logdir, exclusion scopes are given, and the call has raised.
C4_Witness ==
    /\ pc = "get_init_function_raised"
    /\ PretrainedIsEmptyDir
    /\ call.logdir \notin fs.ckpt_dirs
    /\ call.checkpoint_exclude_scopes = Some(<<A>>)
    /\ error # None

\* C6: when the logdir holds a checkpoint, get_init_function returns None
\* whatever the pretrained path and the exclusion scopes are; an init function
\* is returned only for a pretrained path and a logdir without a checkpoint.
C6_PretrainedIgnoredWhenResuming ==
    InitFnCalled =>
        /\ call.logdir \in fs.ckpt_dirs =>
              /\ pc = "get_init_function_returned"
              /\ init_fn = None
              /\ error = None
        /\ (pc = "get_init_function_returned" /\ init_fn # None) =>
              /\ call.pretrained_model_path # None
              /\ call.logdir \notin fs.ckpt_dirs

\* C6's case: a pretrained path with a checkpoint is given, the logdir holds
\* a checkpoint, and the call has returned None.
C6_Witness ==
    /\ pc = "get_init_function_returned"
    /\ call.pretrained_model_path # None
    /\ call.pretrained_model_path.val \in fs.ckpt_dirs
    /\ call.logdir \in fs.ckpt_dirs
    /\ init_fn = None

\* C7: the list the init function restores is exactly the model variables
\* whose name starts with no (stripped) exclusion scope, in the model
\* variables' order, each once; with no exclusion scopes (None or an empty
\* list) it is every model variable.
C7_RestoresAllButExcluded ==
    (pc = "get_init_function_returned" /\ init_fn # None) =>
        LET excl == call.checkpoint_exclude_scopes
            restored == init_fn.var_list
        IN  /\ Range(restored) =
                  {v \in Range(graph.model_variables) :
                      excl = None \/ ~InSomeScope(v, excl.val)}
            /\ NoRepeats(restored)
            /\ InOrderOf(restored, graph.model_variables)
            /\ (excl = None \/ excl = Some(<<>>))
                   => restored = graph.model_variables

\* C7's case: the exclusion scope 'a ' (to be stripped) is given, and of the
\* model variables a, ab, b only b is restored.
C7_Witness ==
    /\ pc = "get_init_function_returned"
    /\ init_fn # None
    /\ call.checkpoint_exclude_scopes = Some(<< <<"a", " ">> >>)
    /\ graph.model_variables = <<A, AB, B>>
    /\ init_fn.var_list = <<B>>

----------------------------------------------------------------------------
(* main() *)

OptNat(n) == {None} \cup {Some(i) : i \in 0..n}

\* What parse_args() can return: the five overrides are None (not given) or a
\* value, 0 included.
ArgsSpace ==
    [tfrecords : {<<"train.tfrecords">>},
     logdir : {LogDir},
     config_file : {"config.yaml"},
     pretrained_model : {None, Some(PretrainedPath)},
     trainable_scopes : {None, Some(<<A>>)},
     checkpoint_exclude_scopes : {None, Some(<<B>>)},
     max_number_of_steps : OptNat(MaxSteps),
     learning_rate_decay_type : {None, Some("fixed"), Some("bogus")},
     learning_rate : {None, Some(0), Some(2)},
     batch_size : OptNat(MaxBatch),
     model_name : {None, Some("resnet_v2_50")}]

\* What parse_config_file() can return.
FileCfgs ==
    Cfgs({MaxExamples}, 1..MaxBatch, {"exponential", "bogus"}, {1}, {"sgd"},
         {MaxSteps}, {"inception_v3"})

InitMain ==
    /\ pc = "main"
    /\ args = None
    /\ fileCfg = None
    /\ cfg = None
    /\ call = None
    /\ lr = None
    /\ optimizer = None
    /\ built = <<>>
    /\ graph = EmptyGraph
    /\ fs = None
    /\ trainable_vars = None
    /\ init_fn = None
    /\ error = None
    /\ global_step = 0

\* args = parse_args()
ParseArgs ==
    /\ pc = "main"
    /\ args' \in ArgsSpace
    /\ pc' = "parse_config_file"
    /\ UNCHANGED <<fileCfg, cfg, lr, optimizer, built, graph, fs, trainable_vars,
                   init_fn, call, error, global_step>>

\* cfg = parse_config_file(args.config_file)
ParseConfigFile ==
    /\ pc = "parse_config_file"
    /\ cfg' \in FileCfgs
    /\ fileCfg' = cfg'
    /\ pc' = "overrides"
    /\ UNCHANGED <<args, lr, optimizer, built, graph, fs, trainable_vars,
                   init_fn, call, error, global_step>>

\* A slip: 'if args.batch_size:' for 'if args.batch_size != None:', so that a
\* batch size of 0 on the command line is not applied.
MutBatchSizeTruthy(c, a) ==
    [c EXCEPT
        !.NUM_TRAIN_ITERATIONS =
            IF a.max_number_of_steps # None THEN a.max_number_of_steps.val ELSE @,
        !.LEARNING_RATE_DECAY_TYPE =
            IF a.learning_rate_decay_type # None
            THEN a.learning_rate_decay_type.val ELSE @,
        !.INITIAL_LEARNING_RATE =
            IF a.learning_rate # None THEN a.learning_rate.val ELSE @,
        !.BATCH_SIZE =
            IF a.batch_size # None /\ a.batch_size.val # 0
            THEN a.batch_size.val ELSE @,
        !.MODEL_NAME =
            IF a.model_name # None THEN a.model_name.val ELSE @]

\* The five 'if args.x != None: cfg.X = args.x' of main()
Overrides(c, a) ==
    [c EXCEPT
        !.NUM_TRAIN_ITERATIONS =
            IF a.max_number_of_steps # None THEN a.max_number_of_steps.val ELSE @,
        !.LEARNING_RATE_DECAY_TYPE =
            IF a.learning_rate_decay_type # None
            THEN a.learning_rate_decay_type.val ELSE @,
        !.INITIAL_LEARNING_RATE =
            IF a.learning_rate # None THEN a.learning_rate.val ELSE @,
        !.BATCH_SIZE =
            IF a.batch_size # None THEN a.batch_size.val ELSE @,
        !.MODEL_NAME =
            IF a.model_name # None THEN a.model_name.val ELSE @]

\* Replace cfg parameters with the command line values
ApplyOverrides ==
    /\ pc = "overrides"
    /\ cfg' = Overrides(cfg, args)
    /\ pc' = "call_train"
    /\ UNCHANGED <<args, fileCfg, lr, optimizer, built, graph, fs, trainable_vars,
                   init_fn, call, error, global_step>>

\* train(tfrecords=args.tfrecords, logdir=args.logdir, cfg=cfg, ...)
CallTrain ==
    /\ pc = "call_train"
    /\ call' = [tfrecords |-> args.tfrecords,
                logdir |-> args.logdir,
                pretrained_model_path |-> args.pretrained_model,
                trainable_scopes |-> args.trainable_scopes,
                checkpoint_exclude_scopes |-> args.checkpoint_exclude_scopes]
    /\ pc' = "train"
    /\ UNCHANGED <<args, fileCfg, cfg, lr, optimizer, built, graph, fs,
                   trainable_vars, init_fn, error, global_step>>

NextMain ==
    \/ ParseArgs
    \/ ParseConfigFile
    \/ ApplyOverrides
    \/ CallTrain

SpecMain == InitMain /\ [][NextMain]_vars

----------------------------------------------------------------------------
(* Claims about main(), checked under SpecMain *)

OverriddenFields ==
    {"NUM_TRAIN_ITERATIONS", "LEARNING_RATE_DECAY_TYPE", "INITIAL_LEARNING_RATE",
     "BATCH_SIZE", "MODEL_NAME"}

\* The field is the command line's value when the option was given, the
\* configuration file's when it was not.
Overridden(field, option) ==
    /\ option # None => cfg[field] = option.val
    /\ option = None => cfg[field] = fileCfg[field]

\* C8: the configuration train() is called with has, for the step count, the
\* decay type, the initial learning rate, the batch size and the model name,
\* the command line's value when the option was given (0 included) and the
\* configuration file's value when it was not; every other field is as the
\* configuration file gave it.
C8_OverridesApplied ==
    pc = "train" =>
        /\ Overridden("NUM_TRAIN_ITERATIONS", args.max_number_of_steps)
        /\ Overridden("LEARNING_RATE_DECAY_TYPE", args.learning_rate_decay_type)
        /\ Overridden("INITIAL_LEARNING_RATE", args.learning_rate)
        /\ Overridden("BATCH_SIZE", args.batch_size)
        /\ Overridden("MODEL_NAME", args.model_name)
        /\ DOMAIN cfg = DOMAIN fileCfg
        /\ \A f \in DOMAIN cfg \ OverriddenFields : cfg[f] = fileCfg[f]

\* C8's case: a batch size of 0 was given and no step count, and train() is
\* called with BATCH_SIZE 0 and the file's step count.
C8_Witness ==
    /\ pc = "train"
    /\ args.batch_size = Some(0)
    /\ fileCfg.BATCH_SIZE # 0
    /\ cfg.BATCH_SIZE = 0
    /\ args.max_number_of_steps = None
    /\ cfg.NUM_TRAIN_ITERATIONS = fileCfg.NUM_TRAIN_ITERATIONS

====
